---------------------------- MODULE Spec2Model ----------------------------
(***************************************************************************)
(* RandomAgent of gymnarium_agents_random (src/src/lib.rs): an agent that  *)
(* holds an action space, the last seed and a ChaCha20 generator, and      *)
(* chooses every action by sampling the action space with the generator.   *)
(*                                                                         *)
(* Numbers.  TLC's integers are 32 bits wide, so a 32-bit word of the      *)
(* generator is a pair <<high half, low half>> of 16-bit numbers and a     *)
(* 64-bit draw is a tuple of four 16-bit limbs, most significant first.    *)
(* A 128-bit word position is a record [wraps, off] that stands for        *)
(* wraps * 2^68 + off, where off is small and below 0 for the last words   *)
(* before 2^68.  A 64-bit block counter is an integer n that stands for    *)
(* n mod 2^64, below 0 for the last blocks before the counter wraps.  A    *)
(* seed is a small number n that stands for the 256-bit value whose first  *)
(* 32-bit word is n and whose other words are 0 (0 is Seed::from(0) of the *)
(* doc test).                                                              *)
(***************************************************************************)
EXTENDS Integers, Sequences, FiniteSets, TLC

---------------------------------------------------------------------------
(* Bounds of the model. *)

\* at most MaxDraws actions are drawn from a stream
MaxDraws == 2
\* the number of dimensions of the wide action space
WideDims == 17

---------------------------------------------------------------------------
(* 32-bit arithmetic on pairs of 16-bit halves. *)

RECURSIVE Xor16(_, _)
Xor16(x, y) ==
    IF x = 0 THEN y
    ELSE IF y = 0 THEN x
    ELSE ((x + y) % 2) + 2 * Xor16(x \div 2, y \div 2)

Xor32(a, b) == <<Xor16(a[1], b[1]), Xor16(a[2], b[2])>>

Add32(a, b) ==
    LET lo == a[2] + b[2]
        hi == a[1] + b[1] + (lo \div 2^16)
    IN  <<hi % 2^16, lo % 2^16>>

\* rotate left by n, 0 < n <= 16
Rotl32(a, n) ==
    IF n = 16 THEN <<a[2], a[1]>>
    ELSE <<((a[1] * 2^n) % 2^16) + (a[2] \div 2^(16 - n)),
           ((a[2] * 2^n) % 2^16) + (a[1] \div 2^(16 - n))>>

\* a number below 2^32 as a 32-bit word
\* the low 32 bits of n in two's complement
Word32(n) == <<(n \div 2^16) % 2^16, n % 2^16>>

---------------------------------------------------------------------------
(* The ChaCha20 block function of ChaCha20Rng: 20 rounds, 64-bit block     *)
(* counter in words 12 and 13, stream id 0 in words 14 and 15.  A state is *)
(* a tuple of 16 words, indexed from 1.                                    *)

\* "expand 32-byte k"
Sigma == << <<24944, 30821>>, <<13088, 25710>>, <<31074, 11570>>, <<27424, 25972>> >>

QuarterRound(s, a, b, c, d) ==
    LET a1 == Add32(s[a], s[b])
        d1 == Rotl32(Xor32(s[d], a1), 16)
        c1 == Add32(s[c], d1)
        b1 == Rotl32(Xor32(s[b], c1), 12)
        a2 == Add32(a1, b1)
        d2 == Rotl32(Xor32(d1, a2), 8)
        c2 == Add32(c1, d2)
        b2 == Rotl32(Xor32(b1, c2), 7)
    IN  [s EXCEPT ![a] = a2, ![b] = b2, ![c] = c2, ![d] = d2]

\* the quarter rounds of a double round: four columns, then four diagonals
Schedule ==
    << <<1, 5, 9, 13>>, <<2, 6, 10, 14>>, <<3, 7, 11, 15>>, <<4, 8, 12, 16>>,
       <<1, 6, 11, 16>>, <<2, 7, 12, 13>>, <<3, 8, 9, 14>>, <<4, 5, 10, 15>> >>

\* quarter rounds k, k + 1, ... of the 20 rounds applied to s; the test of
\* Len(s) makes TLC evaluate the state of a step before the next one
RECURSIVE Rounds(_, _)
Rounds(s, k) ==
    IF k > 10 * Len(Schedule) \/ Len(s) # 16 THEN s
    ELSE LET q == Schedule[((k - 1) % Len(Schedule)) + 1]
         IN  Rounds(QuarterRound(s, q[1], q[2], q[3], q[4]), k + 1)

\* the 256-bit seed n as the eight key words
KeyOf(seed) ==
    <<Word32(seed), Word32(0), Word32(0), Word32(0),
      Word32(0), Word32(0), Word32(0), Word32(0)>>

\* the 16 output words of block number ctr; a counter ctr < 0 stands for
\* 2^64 + ctr, one of the last blocks before the 64-bit counter wraps
ChaChaBlock(seed, ctr) ==
    LET init == Sigma \o KeyOf(seed)
                  \o <<Word32(ctr), Word32(IF ctr < 0 THEN -1 ELSE 0),
                       Word32(0), Word32(0)>>
        fin  == Rounds(init, 1)
    IN  [i \in 1..16 |-> Add32(fin[i], init[i])]

---------------------------------------------------------------------------
(* The generator: ChaCha20Rng is a BlockRng over the ChaCha20 core.  The   *)
(* core holds the key and the block counter; BlockRng holds a buffer of    *)
(* BufWords results and the index of the next unread one.  A generate call *)
(* fills the buffer with the BufBlocks blocks that start at the counter    *)
(* and adds BufBlocks to the counter, so the buffer is always the blocks   *)
(* block_pos - BufBlocks .. block_pos - 1 of the key and is not stored.    *)
(* A 64-bit counter is an integer n that stands for n mod 2^64.            *)

BlockWords == 16
BufBlocks == 4
BufWords == BufBlocks * BlockWords

\* the seeds the model draws from
Seeds == {0, 1}

\* u64::wrapping_add / wrapping_sub on counters
WrappingAdd64(a, b) == a + b
WrappingSub64(a, b) == a - b

\* ChaCha20Rng::from_seed: nothing generated yet, the buffer is empty
from_seed(seed) == [seed |-> seed, block_pos |-> 0, index |-> BufWords]

\* the last block a draw of the model can read: a stream starts within the
\* first buffer and every value drawn from it takes two words
LastBlock == (BufWords + 2 * WideDims * MaxDraws) \div BlockWords

\* the last block a generator of the model holds: a buffer that starts at
\* LastBlock, and the words of one more action read after it
LastHeld == LastBlock + BufBlocks + (2 * WideDims) \div BlockWords

\* the key stream of every seed, block by block, computed once
Keystream ==
    [s \in Seeds |-> [b \in (-BufBlocks)..LastHeld |-> ChaChaBlock(s, b)]]

\* results[i] of the buffer, 0 <= i < BufWords
Results(rng, i) ==
    LET block == WrappingSub64(rng.block_pos, BufBlocks) + (i \div BlockWords)
    IN  Keystream[rng.seed][block][(i % BlockWords) + 1]

\* BlockRng::generate_and_set
generate_and_set(rng, index) ==
    [rng EXCEPT !.block_pos = WrappingAdd64(@, BufBlocks), !.index = index]

\* ChaCha20Rng::get_word_pos, a 68-bit number as [wraps, off] = wraps * 2^68 + off
get_word_pos(rng) ==
    LET buf_start_block == WrappingSub64(rng.block_pos, BufBlocks)
        blocks_part == rng.index \div BlockWords
        words_part  == rng.index % BlockWords
        pos_block   == WrappingAdd64(buf_start_block, blocks_part)
    IN  IF pos_block >= 0
        THEN [wraps |-> 0, off |-> pos_block * BlockWords + words_part]
        ELSE [wraps |-> 1, off |-> pos_block * BlockWords + words_part]

\* ChaCha20Rng::set_word_pos: the block is (word_offset / 16) as u64, which drops
\* the multiples of 2^68; the buffer is generated from that block at once
set_word_pos(rng, word_offset) ==
    LET block == word_offset.off \div BlockWords
    IN  generate_and_set([rng EXCEPT !.block_pos = block],
                         word_offset.off % BlockWords)

\* the 64-bit value whose low half is results[lo] of the buffer of lo_rng and
\* whose high half is results[hi] of the buffer of hi_rng: four 16-bit limbs,
\* most significant first
read_u64(fetch) ==
    [value |-> Results(fetch.hi_rng, fetch.hi) \o Results(fetch.lo_rng, fetch.lo),
     rng   |-> fetch.hi_rng]

\* BlockRng::next_u64: [value, rng].  Two unread words are taken as they are;
\* an exhausted buffer is generated first; with one unread word left it is
\* the low half, and the high half is the first word of the next buffer.
next_u64(rng) ==
    IF rng.index < BufWords - 1
    THEN read_u64([lo_rng |-> rng, lo |-> rng.index,
                   hi_rng |-> [rng EXCEPT !.index = @ + 2], hi |-> rng.index + 1])
    ELSE IF rng.index >= BufWords
    THEN read_u64([lo_rng |-> generate_and_set(rng, 2), lo |-> 0,
                   hi_rng |-> generate_and_set(rng, 2), hi |-> 1])
    ELSE read_u64([lo_rng |-> rng, lo |-> BufWords - 1,
                   hi_rng |-> generate_and_set(rng, 1), hi |-> 0])

---------------------------------------------------------------------------
(* Sampling.  A boundary is [kind, minimum, maximum] with kind "Discrete"  *)
(* or "Continuous"; a value is [tag, v] with tag "Integer" or "Float".  A  *)
(* float is a fixed-point number: the float f is the integer f * FracMax,  *)
(* and a draw keeps the FracBits top bits of the 64 drawn, where the 53-bit*)
(* mantissa of an f64 keeps 52.                                            *)

FracBits == 4
FracMax == 2^FracBits - 1

Discrete(minimum, maximum) ==
    [kind |-> "Discrete", minimum |-> minimum, maximum |-> maximum]
Continuous(minimum, maximum) ==
    [kind |-> "Continuous", minimum |-> minimum * FracMax,
     maximum |-> maximum * FracMax]
Integer(v) == [tag |-> "Integer", v |-> v]
Float(v) == [tag |-> "Float", v |-> v * FracMax]

\* 2^64 mod range, for 0 < range < 2^14
Pow64Mod(range) ==
    LET m  == 2^16 % range
        m2 == (m * m) % range
    IN  (m2 * m2) % range

\* the 128-bit product of a 64-bit value and a range below 2^14: [hi, lo],
\* hi a number and lo four limbs
WideMul(value, range) ==
    LET p4 == value[4] * range
        p3 == value[3] * range + (p4 \div 2^16)
        p2 == value[2] * range + (p3 \div 2^16)
        p1 == value[1] * range + (p2 \div 2^16)
    IN  [hi |-> p1 \div 2^16,
         lo |-> <<p1 % 2^16, p2 % 2^16, p3 % 2^16, p4 % 2^16>>]

\* lo <= zone, where zone = 2^64 - 1 - ints_to_reject
InZone(lo, ints_to_reject) ==
    \/ lo[1] < 2^16 - 1
    \/ lo[2] < 2^16 - 1
    \/ lo[3] < 2^16 - 1
    \/ lo[4] <= 2^16 - 1 - ints_to_reject

\* a faulty variant: the range is taken one too wide
accept_too_wide(drawn, minimum, maximum) ==
    [value |-> Integer(minimum + WideMul(drawn.value, maximum - minimum + 2).hi),
     rng   |-> drawn.rng]

\* a uniform integer of minimum..maximum: [value, rng].  The draw is widened
\* and multiplied by the size of the range; a product whose low half lies
\* beyond the zone is rejected and the draw repeated.
RECURSIVE draw_uniform_integer(_, _, _)
accept_or_repeat(drawn, minimum, maximum) ==
    LET range == maximum - minimum + 1
        prod  == WideMul(drawn.value, range)
    IN  IF InZone(prod.lo, Pow64Mod(range))
        THEN [value |-> Integer(minimum + prod.hi), rng |-> drawn.rng]
        ELSE draw_uniform_integer(drawn.rng, minimum, maximum)

draw_uniform_integer(rng, minimum, maximum) ==
    accept_or_repeat(next_u64(rng), minimum, maximum)

\* the float of a draw: its FracBits top bits are the fraction of the range
scale_to_range(drawn, minimum, maximum) ==
    LET frac == drawn.value[1] \div 2^(16 - FracBits)
    IN  [value |-> [tag |-> "Float",
                    v |-> ((maximum - minimum) * frac) \div FracMax + minimum],
         rng   |-> drawn.rng]

\* a uniform float of minimum..maximum, both ends included: [value, rng]
draw_uniform_float(rng, minimum, maximum) ==
    scale_to_range(next_u64(rng), minimum, maximum)

sample_dimension(rng, boundary) ==
    IF boundary.kind = "Discrete"
    THEN draw_uniform_integer(rng, boundary.minimum, boundary.maximum)
    ELSE draw_uniform_float(rng, boundary.minimum, boundary.maximum)

\* ActionSpace::sample_with: one value per boundary, in the order of the
\* boundaries: [action, rng]
RECURSIVE SampleFrom(_, _, _, _)
\* a faulty variant: the values are collected in reverse order
SampleNext_prepend(space, i, sampled, values) ==
    SampleFrom(space, i + 1, sampled.rng, <<sampled.value>> \o values)

SampleNext(space, i, sampled, values) ==
    SampleFrom(space, i + 1, sampled.rng, Append(values, sampled.value))

SampleFrom(space, i, rng, values) ==
    IF i > Len(space)
    THEN [action |-> [dimensions |-> <<Len(space)>>, values |-> values],
          rng |-> rng]
    ELSE SampleNext(space, i, sample_dimension(rng, space[i]), values)

sample_with(space, rng) == SampleFrom(space, 1, rng, <<>>)

---------------------------------------------------------------------------
(* The agent.                                                              *)

Agents == {"X", "Y"}
EnvironmentStates == {"e0", "e1"}
Rewards == {0, 1}

\* the action spaces of the model: the one of the doc test, and a wide one
\* of alternating kinds whose second action reads across the end of the buffer
DocSpace == <<Discrete(1, 2), Continuous(2, 2)>>
WideSpace ==
    [i \in 1..WideDims |->
       IF i % 2 = 1 THEN Continuous(-(i % 3), i % 5)
       ELSE Discrete(3 - (i % 3), 3 + (i % 4))]
ActionSpaces == {DocSpace, WideSpace}

None == [some |-> FALSE]
Some(v) == [some |-> TRUE, value |-> v]

\* the callers of a shared agent, and the call of one: idle with the action
\* its latest call returned, or drawing with the values drawn so far
Callers == {"p", "q"}
Idle(result) == [pc |-> "idle", values |-> <<>>, result |-> result]
Drawing(result) == [pc |-> "drawing", values |-> <<>>, result |-> result]
ActionOf(values) == [dimensions |-> <<Len(values)>>, values |-> values]

VARIABLES
    agents,    \* agents[a]: the RandomAgent a, [action_spaces, last_seed, rng]
    storage,   \* the RandomAgentStorage in flight from store to load, or None
    stored,    \* the run storage is a snapshot of, or None
    origin,    \* origin[a]: how the stream of a was set up, and its run
    hist,      \* hist[a]: the actions a has chosen since, in order
    pre,       \* pre[a]: a before its latest choose_action, or None
    env,       \* env[a]: the environment state given to that call
    last,      \* the latest call and its outcome: [op, ok]
    requests   \* requests[c]: the choose_action call of caller c on a shared
               \* agent: [pc, values, result]

vars == <<agents, storage, stored, origin, hist, pre, env, last, requests>>

\* RandomAgent::with; entropy is the seed Seed::new_random() draws
with(action_spaces, entropy) ==
    [action_spaces |-> action_spaces,
     last_seed     |-> entropy,
     rng           |-> from_seed(entropy)]

\* a faulty variant: reseed assigns the seed and leaves the generator as it is
Reseeded_keeps_rng(agent, seed) == [agent EXCEPT !.last_seed = seed]

\* a faulty variant: reseed builds the generator and does not record the seed
Reseeded_keeps_seed(agent, seed) == [agent EXCEPT !.rng = from_seed(seed)]

\* a faulty variant: reseed with the seed the agent holds keeps the generator
Reseeded_unless_held(agent, seed) ==
    IF seed = agent.last_seed THEN agent
    ELSE [agent EXCEPT !.last_seed = seed, !.rng = from_seed(seed)]

\* both branches of reseed assign the seed and build the generator from it
Reseeded(agent, seed) ==
    [agent EXCEPT !.last_seed = seed, !.rng = from_seed(seed)]

\* a faulty variant: choose_action samples with a copy of the generator
WithSample_of_copy(agent, sampled) ==
    [action |-> sampled.action, agent |-> agent]

\* choose_action: the action returned and the agent after it, [action, agent]
WithSample(agent, sampled) ==
    [action |-> sampled.action, agent |-> [agent EXCEPT !.rng = sampled.rng]]

\* a faulty variant: one draw is spent on an environment state other than "e0"
Chosen_by_state(agent, environment_state) ==
    WithSample(agent,
               sample_with(agent.action_spaces,
                           IF environment_state = "e0" THEN agent.rng
                           ELSE next_u64(agent.rng).rng))

\* sample_with of every action space at every state of the generator,
\* computed once: Samples[space][seed][block_pos][index]
Samples ==
    [space \in ActionSpaces |-> [s \in Seeds |->
      [b \in 0..(LastBlock + BufBlocks) |-> [i \in 0..BufWords |->
        sample_with(space, [seed |-> s, block_pos |-> b, index |-> i])]]]]

Chosen(agent, environment_state) ==
    WithSample(agent,
               Samples[agent.action_spaces][agent.rng.seed]
                      [agent.rng.block_pos][agent.rng.index])

\* a faulty variant: load builds the generator from the seed and leaves it at word 0
Loaded_at_zero(agent, data) ==
    [agent EXCEPT !.last_seed = data.last_seed,
                  !.rng = from_seed(data.last_seed)]

\* a faulty variant: load adopts the seed and positions the generator it has
Loaded_old_stream(agent, data) ==
    [agent EXCEPT !.last_seed = data.last_seed,
                  !.rng = set_word_pos(@, data.rng_word_pos)]

Loaded(agent, data) ==
    [agent EXCEPT !.last_seed = data.last_seed,
                  !.rng = set_word_pos(from_seed(data.last_seed),
                                       data.rng_word_pos)]

RandomAgentStorage(last_seed, rng_word_pos) ==
    [last_seed |-> last_seed, rng_word_pos |-> rng_word_pos]

\* a faulty variant: store reports the block of the cursor, not the word
Stored_block(agent) ==
    RandomAgentStorage(agent.last_seed,
                       [get_word_pos(agent.rng) EXCEPT
                          !.off = @ - (@ % BlockWords)])

Stored(agent) == RandomAgentStorage(agent.last_seed, get_word_pos(agent.rng))

\* a faulty variant: reset rewinds the generator to the start of its stream
Reset_rewinds(agent) == [agent EXCEPT !.rng = from_seed(agent.last_seed)]

\* reset, process_reward and close: the agent after the call
Reset(agent) == agent
RewardProcessed(agent, reward, done) == agent
\* a faulty variant: close gives up the action space
Closed_clears(agent) == [agent EXCEPT !.action_spaces = <<>>]

Closed(agent) == agent

\* a faulty variant: load refuses a cursor beyond the period of the generator
Ok_unless_beyond(op) ==
    [op |-> op, ok |-> ~(op = "load" /\ storage.value.rng_word_pos.wraps > 0)]

\* Ok(()), the only outcome of a call: RandomAgentError has no value
Ok(op) == [op |-> op, ok |-> TRUE]

\* a run is a stream: its seed, the word position it started at, and the
\* number of actions drawn from it
Run(seed, start, drawn) == [seed |-> seed, start |-> start, drawn |-> drawn]
WordPos(wraps, off) == [wraps |-> wraps, off |-> off]
DrawnBy(a) == origin[a].run.drawn + Len(hist[a])
Origin(kind, run) == [kind |-> kind, run |-> run]

\* persisted states that no store of the model returned: the last word of the
\* first buffer, the same position one period of the generator later, and
\* the last word of the period
ForeignPositions ==
    {WordPos(0, BufWords - 1), WordPos(1, BufWords - 1), WordPos(1, -1)}

ForeignStorage ==
    {RandomAgentStorage(s, p) : s \in Seeds, p \in ForeignPositions}

Init ==
    /\ \E space \in ActionSpaces :
         agents \in [Agents -> {with(space, s) : s \in Seeds}]
    /\ storage = None
    /\ stored = None
    /\ origin = [a \in Agents |->
                   Origin("with", Run(agents[a].last_seed, WordPos(0, 0), 0))]
    /\ hist = [a \in Agents |-> <<>>]
    /\ pre = [a \in Agents |-> None]
    /\ env = [a \in Agents |-> None]
    /\ last = Ok("with")
    /\ requests = [c \in Callers |-> Idle(None)]

\* entropy is the seed Seed::new_random() draws when no seed is given
reseed(a, random_seed, entropy) ==
    LET seed == IF random_seed.some THEN random_seed.value ELSE entropy
    IN  /\ agents' = [agents EXCEPT ![a] = Reseeded(@, seed)]
        /\ origin' = [origin EXCEPT ![a] =
                        Origin(IF random_seed.some THEN "reseed_some"
                                                   ELSE "reseed_none",
                               Run(seed, WordPos(0, 0), 0))]
        /\ hist' = [hist EXCEPT ![a] = <<>>]
        /\ pre' = [pre EXCEPT ![a] = None]
        /\ env' = [env EXCEPT ![a] = None]
        /\ UNCHANGED <<storage, stored>>

reset(a) ==
    /\ agents' = [agents EXCEPT ![a] = Reset(@)]
    /\ UNCHANGED <<storage, stored, origin, hist, pre, env>>

choose_action(a, environment_state) ==
    /\ DrawnBy(a) < MaxDraws
    /\ agents' = [agents EXCEPT ![a] = Chosen(@, environment_state).agent]
    /\ hist' = [hist EXCEPT ![a] =
                  Append(@, Chosen(agents[a], environment_state).action)]
    /\ pre' = [pre EXCEPT ![a] = Some(agents[a])]
    /\ env' = [env EXCEPT ![a] = Some(environment_state)]
    /\ UNCHANGED <<storage, stored, origin>>

process_reward(a, reward, done) ==
    /\ agents' = [agents EXCEPT ![a] = RewardProcessed(@, reward, done)]
    /\ UNCHANGED <<storage, stored, origin, hist, pre, env>>

load(a) ==
    /\ storage # None
    /\ agents' = [agents EXCEPT ![a] = Loaded(@, storage.value)]
    /\ origin' = [origin EXCEPT ![a] =
                    Origin(IF origin[a].kind = "with" /\ hist[a] = <<>>
                           THEN "load_fresh" ELSE "load",
                           stored.value)]
    /\ hist' = [hist EXCEPT ![a] = <<>>]
    /\ pre' = [pre EXCEPT ![a] = None]
    /\ env' = [env EXCEPT ![a] = None]
    /\ UNCHANGED <<storage, stored>>

store(a) ==
    /\ storage' = Some(Stored(agents[a]))
    /\ stored' = Some([origin[a].run EXCEPT !.drawn = DrawnBy(a)])
    /\ UNCHANGED <<agents, origin, hist, pre, env>>

close(a) ==
    /\ agents' = [agents EXCEPT ![a] = Closed(@)]
    /\ UNCHANGED <<storage, stored, origin, hist, pre, env>>

\* Deserialize of RandomAgentStorage: a persisted state from elsewhere
deserialize(data) ==
    /\ storage' = Some(data)
    /\ stored' = Some(Run(data.last_seed, data.rng_word_pos, 0))
    /\ UNCHANGED <<agents, origin, hist, pre, env>>

\* the calls of agent a by its single owner; an observed call is recorded
\* in last
Observe(observed, op) ==
    /\ last' = IF observed THEN Ok(op) ELSE last
    /\ UNCHANGED requests

Call(a, observed) ==
    \/ \E s \in Seeds : reseed(a, Some(s), s) /\ Observe(observed, "reseed")
    \/ \E s \in Seeds : reseed(a, None, s) /\ Observe(observed, "reseed")
    \/ reset(a) /\ Observe(observed, "reset")
    \/ \E e \in EnvironmentStates :
         choose_action(a, e) /\ Observe(observed, "choose_action")
    \/ \E r \in Rewards, done \in BOOLEAN :
         process_reward(a, r, done) /\ Observe(observed, "process_reward")
    \/ load(a) /\ Observe(observed, "load")
    \/ store(a) /\ Observe(observed, "store")
    \/ close(a) /\ Observe(observed, "close")

\* one agent, every call observed, persisted states from anywhere
Next ==
    \/ Call("X", TRUE)
    \/ \E data \in ForeignStorage :
         deserialize(data) /\ Observe(TRUE, "deserialize")

Spec == Init /\ [][Next]_vars

\* two agents over the same action space that pass persisted states on
PairNext == \E a \in Agents : Call(a, FALSE)

PairSpec == Init /\ [][PairNext]_vars

\* Callers that share agent "X" and call choose_action on it.  The method
\* takes &mut self: a call holds the agent exclusively from its start to
\* its return, so a caller starts a call only while no other call is in
\* progress.  A call draws the dimensions one at a time.
\* a faulty variant: the agent is handed out while a call is in progress
BorrowMut_aliased(c) == TRUE

BorrowMut(c) == \A d \in Callers \ {c} : requests[d].pc = "idle"

InProgress == {c \in Callers : requests[c].pc = "drawing"}

begin_choose_action(c) ==
    /\ requests[c].pc = "idle"
    /\ BorrowMut(c)
    /\ Len(hist["X"]) + Cardinality(InProgress) < MaxDraws
    /\ requests' = [requests EXCEPT ![c] = Drawing(requests[c].result)]
    /\ UNCHANGED <<agents, storage, stored, origin, hist, pre, env, last>>

draw_dimension(c) ==
    /\ requests[c].pc = "drawing"
    /\ Len(requests[c].values) < Len(agents["X"].action_spaces)
    /\ LET boundary ==
             agents["X"].action_spaces[Len(requests[c].values) + 1]
           sampled == sample_dimension(agents["X"].rng, boundary)
       IN  /\ agents' = [agents EXCEPT !["X"].rng = sampled.rng]
           /\ requests' = [requests EXCEPT ![c].values =
                             Append(@, sampled.value)]
    /\ UNCHANGED <<storage, stored, origin, hist, pre, env, last>>

return_action(c) ==
    /\ requests[c].pc = "drawing"
    /\ Len(requests[c].values) = Len(agents["X"].action_spaces)
    /\ hist' = [hist EXCEPT !["X"] = Append(@, ActionOf(requests[c].values))]
    /\ requests' = [requests EXCEPT ![c] =
                      Idle(Some(ActionOf(requests[c].values)))]
    /\ UNCHANGED <<agents, storage, stored, origin, pre, env, last>>

ShareNext ==
    \E c \in Callers :
      \/ begin_choose_action(c)
      \/ draw_dimension(c)
      \/ return_action(c)

ShareSpec == Init /\ [][ShareNext]_vars

---------------------------------------------------------------------------
(* Properties.                                                             *)

X == "X"
SpaceOf(a) == agents[a].action_spaces
LastAction(a) == hist[a][Len(hist[a])]
Cursor(a) == get_word_pos(agents[a].rng)

\* C1: store/load round trip.  When x was reseeded with a given seed and a
\* fresh agent y has loaded what was stored after m actions of that run, the
\* j-th action of y is the (m + j)-th action of x.
C1_RoundTrip ==
    \A x, y \in Agents :
      (/\ origin[x].kind = "reseed_some"
       /\ origin[y].kind = "load_fresh"
       /\ origin[y].run.seed = origin[x].run.seed
       /\ origin[y].run.start = origin[x].run.start)
      => \A j \in 1..Len(hist[y]) :
           origin[y].run.drawn + j <= Len(hist[x])
           => hist[y][j] = hist[x][origin[y].run.drawn + j]

C1_Witness ==
    \E x, y \in Agents :
      /\ origin[x].kind = "reseed_some"
      /\ origin[y].kind = "load_fresh"
      /\ origin[y].run.seed = origin[x].run.seed
      /\ origin[y].run.start = origin[x].run.start
      /\ origin[y].run.drawn >= 1
      /\ Len(hist[y]) >= 1
      /\ Len(hist[x]) >= origin[y].run.drawn + Len(hist[y])

\* C2: determinism.  Two agents that were reseeded with the same given seed
\* have chosen the same actions, call by call.
C2_Determinism ==
    \A x, y \in Agents :
      (/\ origin[x].kind = "reseed_some"
       /\ origin[y].kind = "reseed_some"
       /\ origin[x].run.seed = origin[y].run.seed)
      => \A i \in 1..Len(hist[x]) : i <= Len(hist[y]) => hist[x][i] = hist[y][i]

C2_Witness ==
    \E x, y \in Agents :
      /\ x # y
      /\ origin[x].kind = "reseed_some"
      /\ origin[y].kind = "reseed_some"
      /\ origin[x].run.seed = origin[y].run.seed
      /\ Len(hist[x]) = MaxDraws
      /\ Len(hist[y]) = MaxDraws

\* C3: bounds.  Every value of every action chosen lies between the minimum
\* and the maximum of its dimension, both included, and is the minimum when
\* the two are equal.
InBounds(value, boundary) ==
    /\ boundary.minimum <= value.v
    /\ value.v <= boundary.maximum
    /\ boundary.minimum = boundary.maximum => value.v = boundary.minimum

C3_Bounds ==
    \A a \in Agents : \A n \in 1..Len(hist[a]) :
      \A i \in 1..Len(hist[a][n].values) :
        i <= Len(SpaceOf(a)) => InBounds(hist[a][n].values[i], SpaceOf(a)[i])

\* an action with a value at the maximum of a discrete dimension and a value
\* of a continuous dimension whose minimum and maximum are equal
C3_Witness ==
    /\ SpaceOf(X) = DocSpace
    /\ Len(hist[X]) >= 1
    /\ LastAction(X).values[1].v = DocSpace[1].maximum
    /\ LastAction(X).values[2].v = DocSpace[2].minimum

\* C4: order.  Every action chosen has one value per dimension, in the order
\* of the dimensions: an Integer for a Discrete one, a Float for a Continuous
\* one.
TagOf(boundary) == IF boundary.kind = "Discrete" THEN "Integer" ELSE "Float"

C4_Order ==
    \A a \in Agents : \A n \in 1..Len(hist[a]) :
      /\ Len(hist[a][n].values) = Len(SpaceOf(a))
      /\ hist[a][n].dimensions = <<Len(SpaceOf(a))>>
      /\ \A i \in 1..Len(SpaceOf(a)) :
           hist[a][n].values[i].tag = TagOf(SpaceOf(a)[i])

C4_Witness ==
    /\ SpaceOf(X) = WideSpace
    /\ Len(hist[X]) >= 1
    /\ LastAction(X).values[1].tag = "Float"
    /\ LastAction(X).values[2].tag = "Integer"

\* C5: right after reseed, store would return the seed of the call (the given
\* one, or the one drawn) and cursor 0.
C5_Reseed ==
    last.op = "reseed"
    => /\ origin[X].kind \in {"reseed_some", "reseed_none"}
       /\ Stored(agents[X]) =
            RandomAgentStorage(origin[X].run.seed, WordPos(0, 0))

C5_Witness ==
    /\ last.op = "reseed"
    /\ origin[X].kind = "reseed_some"
    /\ storage # None
    /\ storage.value.last_seed # origin[X].run.seed
    /\ storage.value.rng_word_pos.off > 0

\* C6: a step that is a call of reset, process_reward or close changes no
\* agent: seed, generator and action space stay as they were.
C6_NoOps ==
    [][last'.op \in {"reset", "process_reward", "close"}
         => agents' = agents]_vars

C6_Witness ==
    /\ last.op \in {"reset", "process_reward", "close"}
    /\ Cursor(X).off > 0
    /\ Len(hist[X]) >= 1

\* C7: two agents that were in the same state when choose_action was called
\* with different environment states got the same action and are in the same
\* state.
C7_StateIgnored ==
    \A x, y \in Agents :
      (pre[x] # None /\ pre[x] = pre[y] /\ env[x] # env[y])
      => /\ LastAction(x) = LastAction(y)
         /\ agents[x] = agents[y]

C7_Witness ==
    \E x, y \in Agents :
      /\ pre[x] # None
      /\ pre[x] = pre[y]
      /\ env[x] # env[y]
      /\ Len(hist[x]) >= 1
      /\ Len(hist[y]) >= 1

\* C8: every call has returned Ok.
C8_NoError == last.ok

C8_Witness ==
    /\ last.op = "load"
    /\ last.ok
    /\ storage.value \in ForeignStorage
    /\ storage.value.rng_word_pos.wraps > 0
    /\ storage.value.rng_word_pos.off >= 0

\* C9: a step that is a call of store changes no agent, and what it returns
\* is the seed and the cursor of the agent.
C9_Store ==
    [][last'.op = "store"
         => /\ agents' = agents
            /\ storage'.value.last_seed = agents[X].last_seed
            /\ storage'.value.rng_word_pos = get_word_pos(agents[X].rng)]_vars

C9_Witness ==
    /\ last.op = "store"
    /\ Len(hist[X]) >= 1
    /\ storage.value.rng_word_pos.off % BlockWords # 0

\* C10: the golden value.  Over the action space of the doc test, the first
\* action chosen after reseed(Some(Seed::from(0))) is [Integer(2), Float(2.0)]
\* with dimensions [2].
C10_Golden ==
    (/\ SpaceOf(X) = DocSpace
     /\ origin[X] = Origin("reseed_some", Run(0, WordPos(0, 0), 0))
     /\ Len(hist[X]) >= 1)
    => hist[X][1] = [dimensions |-> <<2>>, values |-> <<Integer(2), Float(2)>>]

C10_Witness ==
    /\ SpaceOf(X) = DocSpace
    /\ origin[X] = Origin("reseed_some", Run(0, WordPos(0, 0), 0))
    /\ Len(hist[X]) = 1
    /\ last.op = "choose_action"

\* C11: seed and stream agree.  In every state the generator of an agent is
\* one built from the seed the agent holds, so store reports the seed the
\* stream comes from.
C11_SeedOfStream ==
    \A a \in Agents :
      /\ agents[a].rng.seed = agents[a].last_seed
      /\ Stored(agents[a]).last_seed = agents[a].rng.seed

\* a load by an agent that was not fresh, of a persisted state from
\* elsewhere, followed by an action
C11_Witness ==
    /\ origin[X].kind = "load"
    /\ origin[X].run.start.off > 0
    /\ Len(hist[X]) >= 1
    /\ agents[X].last_seed = origin[X].run.seed

\* the order of word positions
CursorLess(c, d) ==
    \/ c.wraps < d.wraps
    \/ c.wraps = d.wraps /\ c.off < d.off

\* C12, as claimed: a step that is a call of choose_action leaves the
\* cursor greater than it was, and a step that is a call other than reseed
\* and load does not leave it smaller.
C12_Monotone ==
    [][/\ last'.op = "choose_action"
          => CursorLess(get_word_pos(agents[X].rng), get_word_pos(agents'[X].rng))
       /\ last'.op \notin {"reseed", "load"}
          => ~CursorLess(get_word_pos(agents'[X].rng), get_word_pos(agents[X].rng))
      ]_vars

\* C12, amended: a call of choose_action advances the cursor by the words
\* it draws, two or more for each dimension, modulo the period of 2^68
\* words: the cursor is greater after the call unless the draws pass the
\* end of the period, where it starts again from 0.  Every call other than
\* choose_action, reseed and load leaves the cursor as it is.
C12_AdvancesInPeriod ==
    [][/\ last'.op = "choose_action"
          => /\ get_word_pos(agents'[X].rng).off
                  >= get_word_pos(agents[X].rng).off + 2 * Len(SpaceOf(X))
             /\ \/ CursorLess(get_word_pos(agents[X].rng),
                              get_word_pos(agents'[X].rng))
                \/ /\ get_word_pos(agents[X].rng).off < 0
                   /\ get_word_pos(agents'[X].rng).wraps = 0
                   /\ get_word_pos(agents'[X].rng).off >= 0
       /\ last'.op \notin {"choose_action", "reseed", "load"}
          => get_word_pos(agents'[X].rng) = get_word_pos(agents[X].rng)
      ]_vars

\* an action whose draws passed the end of the period
C12_Witness ==
    /\ last.op = "choose_action"
    /\ origin[X].run.start = WordPos(1, -1)
    /\ Len(hist[X]) = 1
    /\ Cursor(X) = WordPos(0, 2 * Len(SpaceOf(X)) - 1)

\* C13: the action space is read-only.  No step changes the action space of
\* an agent, and a persisted state holds a seed and a word position and
\* nothing else.
C13_SpaceKept ==
    [][/\ \A a \in Agents :
            agents'[a].action_spaces = agents[a].action_spaces
       /\ storage'.some
            => DOMAIN storage'.value = {"last_seed", "rng_word_pos"}
      ]_vars

\* an agent over the wide action space that has loaded, chosen an action,
\* stored and was closed
C13_Witness ==
    /\ last.op = "close"
    /\ SpaceOf(X) = WideSpace
    /\ origin[X].kind = "load"
    /\ Len(hist[X]) >= 1
    /\ storage.value = Stored(agents[X])

\* the first n actions of an agent whose calls come one after the other
RECURSIVE Sequential(_, _, _)
Sequential(agent, n, actions) ==
    IF n = 0 THEN actions
    ELSE Sequential(Chosen(agent, "e0").agent, n - 1,
                    Append(actions, Chosen(agent, "e0").action))

\* C14: calls of choose_action on a shared agent are serialized.  At most
\* one call is drawing at a time, the actions returned are, in the order of
\* their return, the actions of calls made one after the other, and the
\* action a caller got is one of them.
C14_Serialized ==
    LET one_by_one == Sequential(with(SpaceOf(X), origin[X].run.seed),
                                 MaxDraws, <<>>)
    IN  /\ Cardinality(InProgress) <= 1
        /\ Len(hist[X]) <= MaxDraws
        /\ \A k \in 1..Len(hist[X]) : hist[X][k] = one_by_one[k]
        /\ \A c \in Callers :
             requests[c].result.some
             => \E k \in 1..Len(hist[X]) :
                  requests[c].result.value = one_by_one[k]

\* two callers that each got an action over the wide action space, while
\* the other was waiting to start
C14_Witness ==
    /\ SpaceOf(X) = WideSpace
    /\ requests["p"].result.some
    /\ requests["q"].result.some
    /\ requests["p"].result.value # requests["q"].result.value
    /\ Len(hist[X]) = MaxDraws

\* a cursor modulo the period of the generator, 2^68 words
InPeriod(word_pos) == WordPos(IF word_pos.off < 0 THEN 1 ELSE 0, word_pos.off)

\* the agent a newly constructed agent over the space becomes when it loads
\* the persisted state
LoadedAnew(space, data) == Loaded(with(space, 0), data)

\* C15, as claimed: load is history-independent and store inverts it.  The
\* agent after load(p) is the one a newly constructed agent becomes by
\* load(p), whatever the agent did before, and a store right after load(p)
\* returns p.
C15_StoreInvertsLoad ==
    [][/\ last'.op = "load"
          => agents'[X] = LoadedAnew(SpaceOf(X), storage.value)
       /\ (last.op = "load" /\ last'.op = "store")
          => storage'.value = storage.value]_vars

\* C15, amended: load is history-independent.  The agent after load(p) is
\* the one a newly constructed agent becomes by load(p), and the actions it
\* then chooses are those of that agent, continuing the run p was stored
\* in.  A store right after load(p) returns the seed of p and the cursor of
\* p modulo 2^68, which is p when the cursor of p is below 2^68.
C15_LoadForgets ==
    /\ [][/\ last'.op = "load"
             => agents'[X] = LoadedAnew(SpaceOf(X), storage.value)
          /\ (last.op = "load" /\ last'.op = "store")
             => /\ storage'.value =
                     RandomAgentStorage(storage.value.last_seed,
                                        InPeriod(storage.value.rng_word_pos))
                /\ (storage.value.rng_word_pos.wraps = 0
                    => storage'.value = storage.value)]_vars
    /\ [](origin[X].kind \in {"load", "load_fresh"}
          => \A j \in 1..Len(hist[X]) :
               hist[X][j] =
                 Sequential(LoadedAnew(SpaceOf(X),
                                       RandomAgentStorage(origin[X].run.seed,
                                                          origin[X].run.start)),
                            DrawnBy(X), <<>>)[origin[X].run.drawn + j])

\* an agent with a history loaded a cursor beyond the period, was stored
\* right after, and then chose an action
C15_Witness ==
    /\ origin[X].kind = "load"
    /\ origin[X].run.start = WordPos(1, BufWords - 1)
    /\ stored.value.start = WordPos(1, BufWords - 1)
    /\ storage.value.rng_word_pos = WordPos(0, BufWords - 1)
    /\ Len(hist[X]) = 1
    /\ last.op = "choose_action"

\* a newly constructed agent over the space, reseeded with the seed
ReseededAnew(space, entropy, seed) == Reseeded(with(space, entropy), seed)

\* C16: reseed erases history.  After reseed(Some(s)), whatever the agent
\* did before, the agent is in the state of a newly constructed agent over
\* the same action space reseeded with s, its cursor is zero, also when s is
\* the seed it held, and the actions it has chosen since are the first
\* actions of such an agent.
C16_ReseedErases ==
    /\ [][origin'[X].kind = "reseed_some" /\ last'.op = "reseed"
          => /\ Cursor(X)' = WordPos(0, 0)
             /\ \A e \in Seeds :
                  agents'[X] = ReseededAnew(SpaceOf(X), e, agents'[X].last_seed)]_vars
    /\ [](origin[X].kind = "reseed_some"
          => \A e \in Seeds :
               hist[X] = Sequential(ReseededAnew(SpaceOf(X), e,
                                                 origin[X].run.seed),
                                    Len(hist[X]), <<>>))

\* an agent that loaded a persisted state of seed s from elsewhere, chose an
\* action and was stored, was later reseeded with s and has chosen every
\* action of the new run
C16_Witness ==
    /\ origin[X].kind = "reseed_some"
    /\ Len(hist[X]) = MaxDraws
    /\ SpaceOf(X) = WideSpace
    /\ stored # None
    /\ stored.value.seed = origin[X].run.seed
    /\ stored.value.start = WordPos(0, BufWords - 1)
    /\ stored.value.drawn >= 1

\* C17: load(store()) on the same agent is the identity.  When an agent
\* loads what its store has just returned, its seed and its cursor are what
\* they were, and the actions it can still choose are the ones it would
\* have chosen without the store and the load.
C17_LoadStoreIdentity ==
    [][(last.op = "store" /\ last'.op = "load")
       => /\ storage.value = Stored(agents[X])
          /\ agents'[X].last_seed = agents[X].last_seed
          /\ Cursor(X)' = Cursor(X)
          /\ agents'[X].action_spaces = agents[X].action_spaces
          /\ \A n \in 0..(MaxDraws - DrawnBy(X)) :
               Sequential(agents'[X], n, <<>>)
                 = Sequential(agents[X], n, <<>>)]_vars

\* an agent that started at the last word of the period, chose an action,
\* was stored, loaded what was stored and chose the next action
C17_Witness ==
    /\ last.op = "choose_action"
    /\ origin[X].kind = "load"
    /\ origin[X].run.start = WordPos(1, -1)
    /\ origin[X].run.drawn = 1
    /\ stored.value = origin[X].run
    /\ storage.value = Stored(pre[X].value)
    /\ Len(hist[X]) = 1
=============================================================================
